---- MODULE Spec2Model ----
(***************************************************************************)
(* Configuration reconciliation engine of openstack-ansible-wizard:        *)
(*   - NetworkScreen (screens/networks.py): load, edit and save of         *)
(*     openstack_user_config.yml (cidr_networks, used_ips,                 *)
(*     global_overrides.provider_networks);                                *)
(*   - load_service_config / save_service_config (common/config.py).       *)
(*                                                                         *)
(* Texts are modelled by their tokens.  An IP literal is a natural number; *)
(* it parses when it is below 2^AddrBits.  A cidr text is a record         *)
(* [form, addr, plen] ("slash": "addr/plen", "bare": "addr", "empty": ""). *)
(* A used-range string is the sequence of its comma separated parts.       *)
(***************************************************************************)
EXTENDS Integers, Sequences, FiniteSets, TLC

VARIABLES
    disk,               \* content of openstack_user_config.yml
    initial_data,       \* NetworkScreen.initial_data (baseline snapshot)
    cidr_networks,      \* NetworkScreen.cidr_networks: ordered name -> {cidr, used_ips}
    provider_networks,  \* NetworkScreen.provider_networks
    phase,              \* "mounting" | "ready" | "modal" (a form shows an error) |
                        \* "crashed" (a worker raised, the app exits)
    last,               \* outcome of the last load or save, "edited" after a mutation
    form_error,         \* what the open form's error widget shows
    svc,                \* service name given to load_service_config
    group_vars,         \* the group_vars directory exists
    legacy,             \* group_vars/<legacy file>: a path
    svc_dir,            \* group_vars/<service>/<file>: a path
    merged_config,      \* mapping returned by the last load_service_config
    svc_error,          \* error returned by the last load_service_config
    svc_last,           \* last service-store operation
    moves,              \* number of legacy files the last load_service_config moved
    workers,            \* thread workers in flight: load_configs and action_save_configs runs
    confirm,            \* the ConfirmExitScreen a handler is waiting on
    gen_initial_data,   \* GenericConfigScreen.initial_data
    gen_inputs,         \* values of the two Input widgets of GenericConfigScreen
    gen_last            \* outcome of the last load or save of GenericConfigScreen

netVars == <<disk, initial_data, cidr_networks, provider_networks, phase, last, form_error>>
svcVars == <<svc, group_vars, legacy, svc_dir, merged_config, svc_error, svc_last, moves>>
wrkVars == <<workers, confirm>>
genVars == <<gen_initial_data, gen_inputs, gen_last>>
vars == <<netVars, svcVars, wrkVars, genVars>>

----------------------------------------------------------------------------
(* Bounds *)

AddrBits == 2       \* width of an address
MaxPN == 1          \* provider networks the session holds at most
MaxUsedIps == 2     \* used ranges the blocks of the session hold at most

----------------------------------------------------------------------------
(* AddressSpace: the ipaddress calls of networks.py *)

AddrCount == 2 ^ AddrBits
Junk == AddrCount                      \* a literal that is no address

\* ipaddress.ip_address(text) does not raise ValueError
IsIpLiteral(t) == t \in 0 .. (AddrCount - 1)

\* ipaddress.ip_network(text, strict=False) does not raise ValueError.
\* A text without "/" is accepted as a host network.
ParsesNetwork(c) ==
    /\ c.form # "empty"
    /\ IsIpLiteral(c.addr)
    /\ (c.form = "slash" => c.plen \in 0 .. AddrBits)

\* the network of a cidr text; strict=False masks the host bits
NetworkOf(c) ==
    LET p == IF c.form = "slash" THEN c.plen ELSE AddrBits
        size == 2 ^ (AddrBits - p)
    IN  [base |-> (c.addr \div size) * size, plen |-> p]

\* ip in network
Contains(net, ip) ==
    LET size == 2 ^ (AddrBits - net.plen)
    IN  (ip \div size) * size = net.base

----------------------------------------------------------------------------
(* Python helpers *)

Range(s) == {s[i] : i \in 1 .. Len(s)}

RECURSIVE StrLess(_, _)
\* a < b on range strings (lexicographic)
StrLess(a, b) ==
    IF a = <<>> THEN b # <<>>
    ELSE IF b = <<>> THEN FALSE
    ELSE IF Head(a) # Head(b) THEN Head(a) < Head(b)
    ELSE StrLess(Tail(a), Tail(b))

RECURSIVE Insert(_, _)
Insert(x, s) ==
    IF s = <<>> THEN <<x>>
    ELSE IF StrLess(x, Head(s)) THEN <<x>> \o s
    ELSE <<Head(s)>> \o Insert(x, Tail(s))

RECURSIVE Sorted(_)
\* sorted(list)
Sorted(s) == IF s = <<>> THEN <<>> ELSE Insert(Head(s), Sorted(Tail(s)))

RECURSIVE Concat(_)
\* list.extend over a sequence of lists
Concat(ss) == IF ss = <<>> THEN <<>> ELSE Head(ss) \o Concat(Tail(ss))

----------------------------------------------------------------------------
(* Documents *)

\* A YAML document of the network file, or what stands in its place.
\* kind: "missing" (no file), "garbage" (YAMLError), "empty" (loads as None),
\*       "unset" (the {} of __init__), "doc" (a mapping).
\* *_tag: whether the key is absent, null, or holds a value.
Doc(cnTag, cn, uiTag, ui, goTag, pnTag, pn, gcnTag, gcn, goRest, rest) ==
    [kind |-> "doc",
     cn_tag |-> cnTag, cn |-> cn,           \* cidr_networks: <<[name, cidr]>>
     ui_tag |-> uiTag, ui |-> ui,           \* used_ips
     go_tag |-> goTag,                      \* global_overrides
     pn_tag |-> pnTag, pn |-> pn,           \* global_overrides.provider_networks
     gcn_tag |-> gcnTag, gcn |-> gcn,       \* global_overrides.cidr_networks
     go_rest |-> goRest,                    \* the other keys of global_overrides
     rest |-> rest]                         \* the other top-level keys

NoDoc(kind) ==
    [Doc("absent", <<>>, "absent", <<>>, "absent", "absent", <<>>, "absent", <<>>,
         "none", "none") EXCEPT !.kind = kind]

\* == on two loaded documents: mappings compare without order
DocEq(a, b) ==
    /\ [a EXCEPT !.cn = <<>>, !.gcn = <<>>] = [b EXCEPT !.cn = <<>>, !.gcn = <<>>]
    /\ Range(a.cn) = Range(b.cn)
    /\ Range(a.gcn) = Range(b.gcn)

\* bool(initial_data)
Truthy(d) ==
    /\ d.kind = "doc"
    /\ ~ (d.cn_tag = "absent" /\ d.ui_tag = "absent" /\ d.go_tag = "absent" /\ d.rest = "none")

----------------------------------------------------------------------------
(* NetworkScreen.load_configs *)

RECURSIVE LastNetwork(_, _, _)
\* a search that does not stop at the first network holding ip
LastNetwork(cn, ip, i) ==
    IF i > Len(cn) THEN 0
    ELSE LET later == LastNetwork(cn, ip, i + 1)
         IN  IF later # 0 THEN later
             ELSE IF ParsesNetwork(cn[i].cidr) /\ Contains(NetworkOf(cn[i].cidr), ip) THEN i
             ELSE 0

RECURSIVE FirstNetwork(_, _, _)
\* index of the first entry of cidr_net_objects holding ip, 0 when none does.
\* cidr_net_objects keeps the declared order and skips the cidrs that do not parse.
FirstNetwork(cn, ip, i) ==
    IF i > Len(cn) THEN 0
    ELSE IF ParsesNetwork(cn[i].cidr) /\ Contains(NetworkOf(cn[i].cidr), ip) THEN i
    ELSE FirstNetwork(cn, ip, i + 1)

RECURSIVE AssociateUsedIpsKeepOrphans(_, _, _)
\* an association that puts a range no network holds into the first block
AssociateUsedIpsKeepOrphans(processed, cn, ui) ==
    IF ui = <<>> THEN processed
    ELSE LET r == Head(ui)
             k == IF IsIpLiteral(r[1]) THEN FirstNetwork(cn, r[1], 1) ELSE 0
             next == IF k = 0
                     THEN IF processed = <<>> THEN processed
                          ELSE [processed EXCEPT ![1].used_ips = Append(@, r)]
                     ELSE [processed EXCEPT ![k].used_ips = Append(@, r)]
         IN  AssociateUsedIpsKeepOrphans(next, cn, Tail(ui))

RECURSIVE AssociateUsedIpsWholeRange(_, _, _)
\* an association that logs a range whose last address its network does not hold
AssociateUsedIpsWholeRange(processed, cn, ui) ==
    IF ui = <<>> THEN processed
    ELSE LET r == Head(ui)
             k == IF IsIpLiteral(r[1]) THEN FirstNetwork(cn, r[1], 1) ELSE 0
             next == IF k = 0 THEN processed
                     ELSE IF ~ Contains(NetworkOf(cn[k].cidr), r[Len(r)]) THEN processed
                     ELSE [processed EXCEPT ![k].used_ips = Append(@, r)]
         IN  AssociateUsedIpsWholeRange(next, cn, Tail(ui))

RECURSIVE AssociateUsedIps(_, _, _)
\* the loop over used_ips_raw: each range goes to the first network holding its
\* first address; ranges with no network or an invalid first address are logged only
AssociateUsedIps(processed, cn, ui) ==
    IF ui = <<>> THEN processed
    ELSE LET r == Head(ui)
             k == IF IsIpLiteral(r[1]) THEN FirstNetwork(cn, r[1], 1) ELSE 0
             next == IF k = 0 THEN processed
                     ELSE [processed EXCEPT ![k].used_ips = Append(@, r)]
         IN  AssociateUsedIps(next, cn, Tail(ui))

\* processed_cidrs as load_configs builds it from a document
ProcessedCidrs(d) ==
    AssociateUsedIps(
        [i \in 1 .. Len(d.cn) |-> [name |-> d.cn[i].name, cidr |-> d.cn[i].cidr, used_ips |-> <<>>]],
        d.cn, d.ui)

\* the load raises past its except clause: data is None, or one of
\* global_overrides, cidr_networks, used_ips is null
LoadRaises(d) ==
    \/ d.kind = "empty"
    \/ d.go_tag = "null"
    \/ d.cn_tag = "null"
    \/ d.ui_tag = "null"

\* the state load_configs leaves, as [initial_data, cidr_networks, provider_networks, phase, last]
LoadConfigs(d, init0, cidrs0, pns0) ==
    IF d.kind = "missing" THEN
        [initial_data |-> init0, cidr_networks |-> cidrs0, provider_networks |-> pns0,
         phase |-> "ready", last |-> "load_not_found"]
    ELSE IF d.kind = "garbage" THEN
        [initial_data |-> init0, cidr_networks |-> cidrs0, provider_networks |-> pns0,
         phase |-> "ready", last |-> "load_yaml_error"]
    ELSE IF LoadRaises(d) THEN
        [initial_data |-> d, cidr_networks |-> cidrs0, provider_networks |-> pns0,
         phase |-> "crashed", last |-> "load_raised"]
    ELSE
        [initial_data |-> d,
         cidr_networks |-> ProcessedCidrs(d),
         provider_networks |-> IF d.go_tag = "map" /\ d.pn_tag = "list" THEN d.pn ELSE <<>>,
         phase |-> "ready", last |-> "load_ok"]

----------------------------------------------------------------------------
(* NetworkScreen.has_unsaved_changes *)

\* {name: data['cidr']} of the current blocks
CurrentCidrs(cidrs) == [i \in 1 .. Len(cidrs) |-> [name |-> cidrs[i].name, cidr |-> cidrs[i].cidr]]

\* a save that writes the used ranges in sorted order
CurrentUsedIpsSorted(cidrs) == Sorted(Concat([i \in 1 .. Len(cidrs) |-> cidrs[i].used_ips]))

\* the used_ips of all blocks, extended in block order
CurrentUsedIps(cidrs) == Concat([i \in 1 .. Len(cidrs) |-> cidrs[i].used_ips])

\* current_data: the baseline with the three managed keys replaced
CurrentData(init, cidrs, pns) ==
    [init EXCEPT !.cn_tag = "map", !.cn = CurrentCidrs(cidrs),
                 !.ui_tag = "list", !.ui = Sorted(CurrentUsedIps(cidrs)),
                 !.go_tag = "map", !.pn_tag = "list", !.pn = pns]

\* a comparison that takes the baseline's used_ips as the file holds them
InitialComparableDataUnsorted(init) ==
    [init EXCEPT !.ui_tag = "list",
                 !.ui = IF init.ui_tag = "list" THEN init.ui ELSE <<>>]

\* initial_comparable_data: the baseline with used_ips sorted, [] when absent or null
InitialComparableData(init) ==
    [init EXCEPT !.ui_tag = "list",
                 !.ui = IF init.ui_tag = "list" THEN Sorted(init.ui) ELSE <<>>]

has_unsaved_changes(init, cidrs, pns) ==
    IF ~ Truthy(init) THEN FALSE
    ELSE ~ DocEq(InitialComparableData(init), CurrentData(init, cidrs, pns))

HasUnsavedChanges == has_unsaved_changes(initial_data, cidr_networks, provider_networks)

----------------------------------------------------------------------------
(* NetworkScreen.action_save_configs *)

\* Select.BLANK: the no-selection object of the Select widget
BLANK == "Select.BLANK"

\* yaml.dump raises RepresenterError: a provider network holds the Select.BLANK object
DumpRaises(pns) == \E i \in 1 .. Len(pns) : pns[i].type = BLANK

\* the save raises past its except clause: config_data is None, global_overrides is
\* null, or cidr_networks is a plain dict (key absent) or None without yaml_set_anchor
SaveRaises(d) ==
    \/ d.kind = "empty"
    \/ d.go_tag = "null"
    \/ d.cn_tag # "map"

\* a save that leaves global_overrides.provider_networks as it was on disk
SavedDocumentNoProviders(d, cidrs, pns) ==
    [d EXCEPT !.ui_tag = "list", !.ui = CurrentUsedIps(cidrs),
              !.go_tag = "map",
              !.cn = CurrentCidrs(cidrs),
              !.gcn_tag = "map", !.gcn = CurrentCidrs(cidrs)]

\* a save that writes a new document holding the managed keys only
SavedDocumentRebuilt(d, cidrs, pns) ==
    Doc("map", CurrentCidrs(cidrs), "list", CurrentUsedIps(cidrs), "map", "list", pns,
        "map", CurrentCidrs(cidrs), "none", "none")

\* a save that replaces the top-level cidr_networks only
SavedDocumentTopOnly(d, cidrs, pns) ==
    [d EXCEPT !.ui_tag = "list", !.ui = CurrentUsedIps(cidrs),
              !.go_tag = "map",
              !.cn = CurrentCidrs(cidrs),
              !.pn_tag = "list", !.pn = pns]

\* config_data as written: the document read back from disk with used_ips, the one
\* shared cidr_networks mapping and global_overrides.provider_networks replaced
SavedDocument(d, cidrs, pns) ==
    [d EXCEPT !.ui_tag = "list", !.ui = CurrentUsedIps(cidrs),
              !.go_tag = "map",
              !.cn = CurrentCidrs(cidrs),
              !.gcn_tag = "map", !.gcn = CurrentCidrs(cidrs),
              !.pn_tag = "list", !.pn = pns]

\* a save that does not ask has_unsaved_changes first
SaveConfigsAlways(d, init0, cidrs0, pns0) ==
    LET keep(ph, l, dsk) ==
            [disk |-> dsk, initial_data |-> init0, cidr_networks |-> cidrs0,
             provider_networks |-> pns0, phase |-> ph, last |-> l]
    IN  IF d.kind \in {"missing", "garbage"} THEN keep("ready", "save_error", d)
        ELSE IF SaveRaises(d) THEN keep("crashed", "save_raised", d)
        ELSE IF DumpRaises(pns0) THEN keep("ready", "save_error", NoDoc("empty"))
        ELSE LET written == SavedDocument(d, cidrs0, pns0)
                 re == LoadConfigs(written, init0, cidrs0, pns0)
             IN  [disk |-> written, initial_data |-> re.initial_data,
                  cidr_networks |-> re.cidr_networks,
                  provider_networks |-> re.provider_networks,
                  phase |-> re.phase, last |-> "save_ok"]

\* the state action_save_configs leaves (its reload included), as
\* [disk, initial_data, cidr_networks, provider_networks, phase, last]
SaveConfigs(d, init0, cidrs0, pns0) ==
    LET keep(ph, l, dsk) ==
            [disk |-> dsk, initial_data |-> init0, cidr_networks |-> cidrs0,
             provider_networks |-> pns0, phase |-> ph, last |-> l]
    IN  IF ~ has_unsaved_changes(init0, cidrs0, pns0) THEN keep("ready", "save_no_changes", d)
        ELSE IF d.kind \in {"missing", "garbage"} THEN keep("ready", "save_error", d)
        ELSE IF SaveRaises(d) THEN keep("crashed", "save_raised", d)
        ELSE IF DumpRaises(pns0) THEN keep("ready", "save_error", NoDoc("empty"))
        ELSE LET written == SavedDocument(d, cidrs0, pns0)
                 re == LoadConfigs(written, init0, cidrs0, pns0)
             IN  [disk |-> written, initial_data |-> re.initial_data,
                  cidr_networks |-> re.cidr_networks,
                  provider_networks |-> re.provider_networks,
                  phase |-> re.phase, last |-> "save_ok"]

----------------------------------------------------------------------------
(* The modal forms *)

NoError == [kind |-> "none", range |-> <<>>, fields |-> {}]

RECURSIVE ValidateUsedIps(_, _)
\* the loop of AddEditCidrNetworkScreen.on_save over used_ips_list: the error of the
\* first range with an invalid first or last part, or with one of them outside network
ValidateUsedIps(network, used_ips_list) ==
    IF used_ips_list = <<>> THEN NoError
    ELSE LET ip_range == Head(used_ips_list)
             start_ip == ip_range[1]
             end_ip == ip_range[Len(ip_range)]
         IN  IF ~ IsIpLiteral(start_ip) \/ ~ IsIpLiteral(end_ip)
             THEN [kind |-> "invalid_ip", range |-> <<>>, fields |-> {}]
             ELSE IF ~ Contains(network, start_ip) \/ ~ Contains(network, end_ip)
             THEN [kind |-> "outside", range |-> ip_range, fields |-> {}]
             ELSE ValidateUsedIps(network, Tail(used_ips_list))

\* an on_save without the check for "/" in the value
CidrOnSaveNoNetmaskCheck(name, value, used_ips_list) ==
    IF name = "" \/ value.form = "empty"
    THEN [kind |-> "empty", range |-> <<>>, fields |-> {}]
    ELSE IF ~ ParsesNetwork(value)
    THEN [kind |-> "invalid_cidr", range |-> <<>>, fields |-> {}]
    ELSE ValidateUsedIps(NetworkOf(value), used_ips_list)

\* AddEditCidrNetworkScreen.on_save: the error it shows, NoError when it dismisses
\* with (name, {cidr, used_ips})
CidrOnSave(name, value, used_ips_list) ==
    IF name = "" \/ value.form = "empty"
    THEN [kind |-> "empty", range |-> <<>>, fields |-> {}]
    ELSE IF value.form # "slash"
    THEN [kind |-> "no_netmask", range |-> <<>>, fields |-> {}]
    ELSE IF ~ ParsesNetwork(value)
    THEN [kind |-> "invalid_cidr", range |-> <<>>, fields |-> {}]
    ELSE ValidateUsedIps(NetworkOf(value), used_ips_list)

\* `not x` on a form value: the empty string is falsy, the Select.BLANK object is not
Falsy(x) == x = ""

\* the `errors` list of AddEditProviderNetworkScreen.on_save
PnErrors(bridge, net_type, interface, ip_from_q) ==
    (IF Falsy(bridge) THEN {"Bridge"} ELSE {})
    \cup (IF Falsy(net_type) THEN {"Type"} ELSE {})
    \cup (IF Falsy(interface) THEN {"Container Interface"} ELSE {})
    \cup (IF Falsy(ip_from_q) \/ ip_from_q = BLANK THEN {"IP From Network"} ELSE {})

\* AddEditProviderNetworkScreen.on_save: the error it shows
PnOnSave(bridge, net_type, interface, ip_from_q) ==
    LET errors == PnErrors(bridge, net_type, interface, ip_from_q)
    IN  IF errors # {} THEN [kind |-> "required", range |-> <<>>, fields |-> errors]
        ELSE NoError

\* a result built from the form alone
PnResultFromForm(network_data, bridge, net_type, interface, ip_from_q) ==
    [bridge |-> bridge, type |-> net_type, interface |-> interface,
     ip_from_q |-> ip_from_q, other |-> "none"]

\* result: a copy of network_data with the fields the form manages replaced
PnResult(network_data, bridge, net_type, interface, ip_from_q) ==
    [network_data EXCEPT !.bridge = bridge, !.type = net_type,
                         !.interface = interface, !.ip_from_q = ip_from_q]

\* network_data of the add form: {}
NewPn == [bridge |-> "", type |-> BLANK, interface |-> "", ip_from_q |-> BLANK, other |-> "none"]

----------------------------------------------------------------------------
(* dict and list updates of the mutation handlers *)

Names(cidrs) == {cidrs[i].name : i \in 1 .. Len(cidrs)}

\* current_cidrs[name] = data: in place when the key exists, appended otherwise
SetCidr(cidrs, name, data) ==
    LET entry == [name |-> name, cidr |-> data.cidr, used_ips |-> data.used_ips]
    IN  IF name \in Names(cidrs)
        THEN [i \in 1 .. Len(cidrs) |-> IF cidrs[i].name = name THEN entry ELSE cidrs[i]]
        ELSE Append(cidrs, entry)

\* current_cidrs.pop(cidr_name, None)
PopCidr(cidrs, name) == SelectSeq(cidrs, LAMBDA e : e.name # name)

\* current_nets.pop(index)
PopPn(pns, index) == [i \in 1 .. Len(pns) - 1 |-> IF i < index THEN pns[i] ELSE pns[i + 1]]

----------------------------------------------------------------------------
(* Inputs of the network screen *)

CidrLow == [form |-> "slash", addr |-> 0, plen |-> 1]        \* the lower half
CidrAll == [form |-> "slash", addr |-> 1, plen |-> 0]        \* host bits set; holds every address
CidrBare == [form |-> "bare", addr |-> 0, plen |-> 0]        \* no "/"
CidrBad == [form |-> "slash", addr |-> Junk, plen |-> 1]     \* "/" but no network
CidrEmpty == [form |-> "empty", addr |-> 0, plen |-> 0]      \* ""

R0 == <<0>>
R2 == <<AddrCount - 2>>                 \* in the upper half
R12 == <<1, AddrCount - 2>>             \* from the lower half into the upper half
R0J == <<0, Junk>>
RJ == <<Junk>>

\* what the user submits in the cidr form: (name, value, used_ips)
CidrSubmissions ==
    {[name |-> "", value |-> CidrLow, used_ips |-> <<>>],
     [name |-> "mgmt", value |-> CidrEmpty, used_ips |-> <<>>],
     [name |-> "mgmt", value |-> CidrBare, used_ips |-> <<>>],
     [name |-> "mgmt", value |-> CidrBad, used_ips |-> <<>>],
     [name |-> "mgmt", value |-> CidrLow, used_ips |-> <<R0J>>],
     [name |-> "mgmt", value |-> CidrLow, used_ips |-> <<R2, R12>>],
     [name |-> "stor", value |-> CidrLow, used_ips |-> <<R12>>]}
    \cup [name : {"mgmt", "stor"}, value : {CidrLow}, used_ips : {<<>>}]
    \cup [name : {"mgmt", "stor"}, value : {CidrAll}, used_ips : {<<R2, R12>>}]

\* what the user submits in the provider network form
PnSubmissions ==
    {[bridge |-> "", type |-> "vlan", interface |-> "eth11", ip_from_q |-> "mgmt"],
     [bridge |-> "br-vlan", type |-> BLANK, interface |-> "eth11", ip_from_q |-> "mgmt"],
     [bridge |-> "br-vlan", type |-> "vlan", interface |-> "", ip_from_q |-> "mgmt"],
     [bridge |-> "br-vlan", type |-> "vlan", interface |-> "eth11", ip_from_q |-> BLANK],
     [bridge |-> "br-vlan", type |-> "vlan", interface |-> "eth11", ip_from_q |-> "mgmt"]}

\* a provider network of the file; `other` stands for the fields no form manages
PnLoaded == [bridge |-> "br-vlan", type |-> "vlan", interface |-> "eth11", ip_from_q |-> "mgmt", other |-> "is_management_address"]
\* a second provider network of the file, with a key the form does not manage
PnSecond == [bridge |-> "br-mgmt", type |-> "raw", interface |-> "eth1", ip_from_q |-> "mgmt", other |-> "reference_group"]

\* the documents the session may find on disk
FullDoc ==
    Doc("map", <<[name |-> "stor", cidr |-> CidrLow], [name |-> "mgmt", cidr |-> CidrAll]>>,
        "list", <<R2, R12>>, "map", "list", <<PnLoaded>>,
        "map", <<[name |-> "stor", cidr |-> CidrLow], [name |-> "mgmt", cidr |-> CidrAll]>>,
        "tunnel_bridge", "shared-infra_hosts")
OrphanDoc ==
    Doc("map", <<[name |-> "mgmt", cidr |-> CidrLow]>>, "list", <<R0, R2>>,
        "map", "list", <<>>, "absent", <<>>, "tunnel_bridge", "shared-infra_hosts")
NoProvidersDoc ==
    Doc("map", <<[name |-> "mgmt", cidr |-> CidrAll]>>, "list", <<R12>>,
        "map", "absent", <<>>, "absent", <<>>, "tunnel_bridge", "shared-infra_hosts")
\* no used_ips key; global_overrides.cidr_networks is a mapping of its own
NoUsedIpsDoc ==
    Doc("map", <<[name |-> "mgmt", cidr |-> CidrLow]>>, "absent", <<>>,
        "map", "list", <<>>, "map", <<[name |-> "stor", cidr |-> CidrAll]>>,
        "tunnel_bridge", "log_hosts")
OddCidrsDoc ==
    Doc("map", <<[name |-> "mgmt", cidr |-> CidrBad], [name |-> "stor", cidr |-> CidrBare]>>,
        "list", <<R0, RJ>>, "map", "list", <<>>, "absent", <<>>,
        "tunnel_bridge", "shared-infra_hosts")
NoCidrsDoc ==
    Doc("absent", <<>>, "list", <<>>, "map", "list", <<>>, "absent", <<>>,
        "tunnel_bridge", "shared-infra_hosts")
NullUsedIpsDoc ==
    Doc("map", <<[name |-> "mgmt", cidr |-> CidrLow]>>, "null", <<>>,
        "map", "list", <<>>, "absent", <<>>, "tunnel_bridge", "shared-infra_hosts")
\* two provider networks
TwoProvidersDoc ==
    Doc("map", <<[name |-> "mgmt", cidr |-> CidrLow]>>, "list", <<R0>>,
        "map", "list", <<PnLoaded, PnSecond>>, "absent", <<>>,
        "tunnel_bridge", "shared-infra_hosts")

DiskInputs ==
    {NoDoc("missing"), NoDoc("garbage"), NoDoc("empty"),
     FullDoc, OrphanDoc, NoProvidersDoc, NoUsedIpsDoc, OddCidrsDoc, NoCidrsDoc, NullUsedIpsDoc}

----------------------------------------------------------------------------
(* The network screen *)

\* __init__: initial_data = {}, no blocks, no provider networks
NetInit ==
    /\ disk \in DiskInputs
    /\ initial_data = NoDoc("unset")
    /\ cidr_networks = <<>>
    /\ provider_networks = <<>>
    /\ phase = "mounting"
    /\ last = "init"
    /\ form_error = NoError

\* on_mount: load_configs
on_mount ==
    /\ UNCHANGED <<svcVars, wrkVars, genVars>>
    /\ phase = "mounting"
    /\ LET re == LoadConfigs(disk, initial_data, cidr_networks, provider_networks)
       IN  /\ initial_data' = re.initial_data
           /\ cidr_networks' = re.cidr_networks
           /\ provider_networks' = re.provider_networks
           /\ phase' = re.phase
           /\ last' = re.last
    /\ UNCHANGED <<disk, form_error>>

\* the cidr form submitted: on_save shows an error and the form stays open, or it
\* dismisses with (name, data) and the handler stores current_cidrs[name] = data
SubmitCidr(sub) ==
    LET err == CidrOnSave(sub.name, sub.value, sub.used_ips)
        stored == SetCidr(cidr_networks, sub.name, [cidr |-> sub.value, used_ips |-> sub.used_ips])
    IN  /\ form_error' = err
        /\ IF err = NoError
           THEN /\ Len(CurrentUsedIps(stored)) <= MaxUsedIps
                /\ cidr_networks' = stored
                /\ phase' = "ready"
                /\ last' = "edited"
           ELSE UNCHANGED <<cidr_networks, last>> /\ phase' = "modal"
        /\ UNCHANGED <<disk, initial_data, provider_networks>>

on_add_cidr_button_pressed ==
    /\ UNCHANGED <<svcVars, wrkVars, genVars>>
    /\ phase = "ready"
    /\ \E sub \in CidrSubmissions : SubmitCidr(sub)

action_edit_cidr ==
    /\ UNCHANGED <<svcVars, wrkVars, genVars>>
    /\ phase = "ready"
    /\ Names(cidr_networks) \ {""} # {}
    /\ \E sub \in CidrSubmissions : SubmitCidr(sub)

on_delete_cidr_button_pressed ==
    /\ UNCHANGED <<svcVars, wrkVars, genVars>>
    /\ phase = "ready"
    /\ \E cidr_name \in Names(cidr_networks), confirmed \in BOOLEAN :
           IF confirmed
           THEN /\ cidr_networks' = PopCidr(cidr_networks, cidr_name)
                /\ last' = "edited"
           ELSE UNCHANGED <<cidr_networks, last>>
    /\ UNCHANGED <<disk, initial_data, provider_networks, phase, form_error>>

\* the options of the "IP From Network" select: blank or one of cidr_options
IpFromOptions(cidrs) == {BLANK} \cup Names(cidrs)

\* a compose that hands the stored ip_from_q to the Select as it is
CurrentIpFromQStored(network_data, cidr_options) == network_data.ip_from_q

\* compose of the provider network form: current_ip_from_q, reset to blank when
\* the stored block name is not among cidr_options
CurrentIpFromQ(network_data, cidr_options) ==
    IF network_data.ip_from_q \notin cidr_options THEN BLANK ELSE network_data.ip_from_q

\* Select(options, value, allow_blank=True) raises InvalidSelectValueError
SelectRaises(value, cidr_options) == value \notin cidr_options \cup {BLANK}

\* the provider network form submitted over network_data; index 0 appends
SubmitPn(index, network_data, sub) ==
    LET err == PnOnSave(sub.bridge, sub.type, sub.interface, sub.ip_from_q)
        result == PnResult(network_data, sub.bridge, sub.type, sub.interface, sub.ip_from_q)
    IN  /\ sub.ip_from_q \in IpFromOptions(cidr_networks)
        /\ form_error' = err
        /\ IF err = NoError
           THEN /\ provider_networks' =
                       IF index = 0 THEN Append(provider_networks, result)
                       ELSE [provider_networks EXCEPT ![index] = result]
                /\ phase' = "ready"
                /\ last' = "edited"
           ELSE UNCHANGED <<provider_networks, last>> /\ phase' = "modal"
        /\ UNCHANGED <<disk, initial_data, cidr_networks>>

action_add_provider_network ==
    /\ UNCHANGED <<svcVars, wrkVars, genVars>>
    /\ phase = "ready"
    /\ Len(provider_networks) < MaxPN
    /\ \E sub \in PnSubmissions : SubmitPn(0, NewPn, sub)

action_edit_provider_network ==
    /\ UNCHANGED <<svcVars, wrkVars, genVars>>
    /\ phase = "ready"
    /\ \E index \in 1 .. Len(provider_networks), sub \in PnSubmissions :
           IF SelectRaises(CurrentIpFromQ(provider_networks[index], Names(cidr_networks)),
                           Names(cidr_networks))
           THEN /\ phase' = "crashed"
                /\ UNCHANGED <<disk, initial_data, cidr_networks, provider_networks, last,
                               form_error>>
           ELSE SubmitPn(index, provider_networks[index], sub)

on_delete_provider_network_button_pressed ==
    /\ UNCHANGED <<svcVars, wrkVars, genVars>>
    /\ phase = "ready"
    /\ \E index \in 1 .. Len(provider_networks), confirmed \in BOOLEAN :
           IF confirmed
           THEN /\ provider_networks' = PopPn(provider_networks, index)
                /\ last' = "edited"
           ELSE UNCHANGED <<provider_networks, last>>
    /\ UNCHANGED <<disk, initial_data, cidr_networks, phase, form_error>>

\* the Cancel button of a form that shows an error: dismiss(None)
action_pop_screen ==
    /\ UNCHANGED <<svcVars, wrkVars, genVars>>
    /\ phase = "modal"
    /\ phase' = "ready"
    /\ form_error' = NoError
    /\ UNCHANGED <<disk, initial_data, cidr_networks, provider_networks, last>>

action_save_configs ==
    /\ UNCHANGED <<svcVars, wrkVars, genVars>>
    /\ phase = "ready"
    /\ LET re == SaveConfigs(disk, initial_data, cidr_networks, provider_networks)
       IN  /\ disk' = re.disk
           /\ initial_data' = re.initial_data
           /\ cidr_networks' = re.cidr_networks
           /\ provider_networks' = re.provider_networks
           /\ phase' = re.phase
           /\ last' = re.last
    /\ UNCHANGED form_error

----------------------------------------------------------------------------
(* common/config.py: the per-service store *)

Keys == {"key_a", "key_b", "key_c"}      \* top-level keys of a service mapping
Absent == "absent"              \* the mapping does not hold the key

\* {}
EmptyMap == [k \in Keys |-> Absent]

\* the mapping that gives every key of ks the value v
Defines(v, ks) == [k \in Keys |-> IF k \in ks THEN v ELSE Absent]

\* a path: no file, a file yaml.load raises YAMLError on, a file that holds a
\* scalar (it loads, and dict.update raises ValueError on it), or a file that
\* holds a mapping (an empty file loads as None, which "or {}" turns into {})
NoFile == [kind |-> "none", data |-> EmptyMap]
Garbage == [kind |-> "garbage", data |-> EmptyMap]
Scalar == [kind |-> "scalar", data |-> EmptyMap]
File(m) == [kind |-> "map", data |-> m]

\* a merge in which the first file that defines a key keeps it
UpdateKeepsFirst(m, data) == [k \in Keys |-> IF m[k] # Absent THEN m[k] ELSE data[k]]

\* merged_config.update(data)
Update(m, data) == [k \in Keys |-> IF data[k] # Absent THEN data[k] ELSE m[k]]

\* legacy_files, in the order of the list; names are relative to group_vars
LegacyFiles(service_name) ==
    IF service_name = "all"
    THEN <<"all.yml", "all.yaml">>
    ELSE <<service_name \o ".yml", service_name \o ".yaml",
           service_name \o "_all.yml", service_name \o "_all.yaml">>

\* new_name before the loop; "" stands for None
InitialNewName(service_name) == IF service_name = "all" THEN "vars.yml" ELSE ""

\* the file names a service directory holds here, in the order sorted() gives them
DirNames ==
    <<"a.yml",
      "migrated_haproxy.yaml", "migrated_haproxy.yml",
      "migrated_haproxy_all.yaml", "migrated_haproxy_all.yml",
      "vars.yml", "wizzard.yml", "zz.yml">>

RECURSIVE MoveLegacyCopies(_, _, _, _, _, _)
\* a migration that copies: the legacy file stays where it was
MoveLegacyCopies(files, i, new_name, leg, dir, fail_at) ==
    IF i > Len(files) THEN [legacy |-> leg, svc_dir |-> dir, error |-> FALSE]
    ELSE IF leg[files[i]] = NoFile
    THEN MoveLegacyCopies(files, i + 1, new_name, leg, dir, fail_at)
    ELSE LET name == IF new_name = "" THEN "migrated_" \o files[i] ELSE new_name
         IN  IF fail_at = i
             THEN [legacy |-> leg, svc_dir |-> dir, error |-> TRUE]
             ELSE MoveLegacyCopies(files, i + 1, name, leg,
                                   [dir EXCEPT ![name] = leg[files[i]]], fail_at)

RECURSIVE MoveLegacy(_, _, _, _, _, _)
\* the loop over legacy_files from position i on.  new_name is set once and
\* kept for the files that follow; shutil.move replaces an existing target.
\* fail_at: the position whose move raises OSError (0: none does)
MoveLegacy(files, i, new_name, leg, dir, fail_at) ==
    IF i > Len(files) THEN [legacy |-> leg, svc_dir |-> dir, error |-> FALSE]
    ELSE IF leg[files[i]] = NoFile
    THEN MoveLegacy(files, i + 1, new_name, leg, dir, fail_at)
    ELSE LET name == IF new_name = "" THEN "migrated_" \o files[i] ELSE new_name
         IN  IF fail_at = i
             THEN [legacy |-> leg, svc_dir |-> dir, error |-> TRUE]
             ELSE MoveLegacy(files, i + 1, name,
                             [leg EXCEPT ![files[i]] = NoFile],
                             [dir EXCEPT ![name] = leg[files[i]]],
                             fail_at)

\* sorted(service_dir_path.glob("*.y*ml"))
SortedGlob(dir) == SelectSeq(DirNames, LAMBDA n : dir[n] # NoFile)

RECURSIVE MergeFiles(_, _, _)
\* the loop over the sorted files: update per file, ({}, error) on a YAMLError;
\* raised: update raised past the except clause
MergeFiles(files, dir, merged) ==
    IF files = <<>> THEN [merged_config |-> merged, error |-> FALSE, raised |-> FALSE]
    ELSE IF dir[Head(files)] = Garbage
    THEN [merged_config |-> EmptyMap, error |-> TRUE, raised |-> FALSE]
    ELSE IF dir[Head(files)] = Scalar
    THEN [merged_config |-> merged, error |-> FALSE, raised |-> TRUE]
    ELSE MergeFiles(Tail(files), dir, Update(merged, dir[Head(files)].data))

\* load_service_config past the mkdir
LoadServiceConfig(service_name, leg, dir, fail_at) ==
    LET moved == MoveLegacy(LegacyFiles(service_name), 1, InitialNewName(service_name),
                            leg, dir, fail_at)
        re == MergeFiles(SortedGlob(moved.svc_dir), moved.svc_dir, EmptyMap)
    IN  IF moved.error
        THEN [legacy |-> moved.legacy, svc_dir |-> moved.svc_dir,
              merged_config |-> EmptyMap, error |-> TRUE, raised |-> FALSE]
        ELSE [legacy |-> moved.legacy, svc_dir |-> moved.svc_dir,
              merged_config |-> re.merged_config, error |-> re.error, raised |-> re.raised]

\* the mappings a screen saves
SaveData == {Defines("saved", {"key_a"}), Defines("saved", Keys)}

\* the files that lie in the service directory before the wizard first runs
OperatorFiles == {"a.yml", "vars.yml", "wizzard.yml", "zz.yml"}

\* what the operator's file of that name holds
OperatorFile(n) ==
    IF n = "wizzard.yml" THEN File(Defines(n, {"key_a", "key_c"}))
    ELSE IF n = "vars.yml" THEN File(Defines(n, {"key_b"}))
    ELSE File(Defines(n, Keys))

\* the deployment before the first call: some legacy files, some files in the
\* service directory; without group_vars there is neither
SvcInit ==
    /\ svc \in {"haproxy", "all"}
    /\ group_vars \in BOOLEAN
    /\ \E present \in SUBSET Range(LegacyFiles(svc)) :
           legacy = [n \in Range(LegacyFiles(svc)) |->
                        IF group_vars /\ n \in present
                        THEN File(Defines(n, {"key_a"})) ELSE NoFile]
    /\ \E present \in SUBSET OperatorFiles, broken \in {NoFile, Garbage, Scalar} :
           svc_dir = [n \in Range(DirNames) |->
                         IF group_vars /\ n \in present
                         THEN (IF n = "a.yml" /\ broken # NoFile THEN broken
                               ELSE OperatorFile(n))
                         ELSE NoFile]
    /\ merged_config = EmptyMap
    /\ svc_error = FALSE
    /\ svc_last = "init"
    /\ moves = 0

load_service_config ==
    /\ UNCHANGED <<netVars, wrkVars, genVars>>
    /\ IF ~ group_vars
       THEN \* mkdir without parents raises FileNotFoundError
            /\ svc_last' = "load_raised"
            /\ moves' = 0
            /\ UNCHANGED <<svc, group_vars, legacy, svc_dir, merged_config, svc_error>>
       ELSE \E fail_at \in 0 .. Len(LegacyFiles(svc)) :
                LET re == LoadServiceConfig(svc, legacy, svc_dir, fail_at)
                IN  /\ legacy' = re.legacy
                    /\ svc_dir' = re.svc_dir
                    /\ IF re.raised
                       THEN /\ svc_last' = "load_raised"
                            /\ UNCHANGED <<merged_config, svc_error>>
                       ELSE /\ merged_config' = re.merged_config
                            /\ svc_error' = re.error
                            /\ svc_last' = IF re.error THEN "load_error" ELSE "load_ok"
                    /\ moves' = Cardinality({n \in DOMAIN legacy :
                                                legacy[n] # NoFile /\ re.legacy[n] = NoFile})
                    /\ UNCHANGED <<svc, group_vars>>

\* a save that rewrites the service directory: only wizzard.yml is left in it
save_service_config_alone ==
    /\ UNCHANGED <<netVars, wrkVars, genVars>>
    /\ \E data \in SaveData :
           svc_dir' = [n \in DOMAIN svc_dir |-> IF n = "wizzard.yml" THEN File(data) ELSE NoFile]
    /\ group_vars' = TRUE
    /\ svc_last' = "save_ok"
    /\ UNCHANGED <<svc, legacy, merged_config, svc_error, moves>>

save_service_config ==
    /\ UNCHANGED <<netVars, wrkVars, genVars>>
    /\ \E data \in SaveData :
           svc_dir' = [svc_dir EXCEPT !["wizzard.yml"] = File(data)]
    /\ group_vars' = TRUE
    /\ svc_last' = "save_ok"
    /\ UNCHANGED <<svc, legacy, merged_config, svc_error, moves>>

\* the service store while the network screen runs
SvcIdle ==
    /\ svc = "all"
    /\ group_vars = TRUE
    /\ legacy = <<>>
    /\ svc_dir = <<>>
    /\ merged_config = EmptyMap
    /\ svc_error = FALSE
    /\ svc_last = "init"
    /\ moves = 0

\* the network screen while the service store runs
NetIdle ==
    /\ disk = NoDoc("missing")
    /\ initial_data = NoDoc("unset")
    /\ cidr_networks = <<>>
    /\ provider_networks = <<>>
    /\ phase = "mounting"
    /\ last = "init"
    /\ form_error = NoError

\* no confirmation is open
NoConfirm == [kind |-> "none", target |-> ""]

\* no worker in flight, no confirmation open
WrkIdle ==
    /\ workers = <<>>
    /\ confirm = NoConfirm

\* GenericConfigScreen.__init__: initial_data = {}, the inputs are empty
GenIdle ==
    /\ gen_initial_data = EmptyMap
    /\ gen_inputs = [internal |-> "", external |-> ""]
    /\ gen_last = "init"

Init == NetInit /\ SvcIdle /\ WrkIdle /\ GenIdle

SvcSpecInit == NetIdle /\ SvcInit /\ WrkIdle /\ GenIdle

Next ==
    \/ on_mount
    \/ on_add_cidr_button_pressed
    \/ action_edit_cidr
    \/ on_delete_cidr_button_pressed
    \/ action_add_provider_network
    \/ action_edit_provider_network
    \/ on_delete_provider_network_button_pressed
    \/ action_pop_screen
    \/ action_save_configs

Spec == Init /\ [][Next]_vars

\* the network screen opened on the file with two provider networks
TwoProvidersInit ==
    /\ disk = TwoProvidersDoc
    /\ initial_data = NoDoc("unset")
    /\ cidr_networks = <<>>
    /\ provider_networks = <<>>
    /\ phase = "mounting"
    /\ last = "init"
    /\ form_error = NoError
    /\ SvcIdle
    /\ WrkIdle
    /\ GenIdle

TwoProvidersSpec == TwoProvidersInit /\ [][Next]_vars

SvcNext ==
    \/ load_service_config
    \/ save_service_config

SvcSpec == SvcSpecInit /\ [][SvcNext]_vars

----------------------------------------------------------------------------
(* The network screen with its workers in flight.  load_configs and        *)
(* action_save_configs are @work(thread=True) without exclusive=True: each *)
(* call starts a thread that runs beside the event loop and beside the     *)
(* threads already started.  A worker is [op, pc, data, cidrs]: data is    *)
(* the document it read, cidrs the blocks a save captured.  The delete and *)
(* pop handlers are @work coroutines that wait on a ConfirmExitScreen.     *)

MaxWorkers == 2     \* thread workers in flight

Worker(op, pc, data, cidrs) == [op |-> op, pc |-> pc, data |-> data, cidrs |-> cidrs]

\* self.load_configs(): a new thread worker at the top of load_configs
NewLoad == Worker("load", "read", NoDoc("unset"), <<>>)

\* self.action_save_configs(): a new thread worker at the top of action_save_configs
NewSave == Worker("save", "check", NoDoc("unset"), <<>>)

\* the workers without the w-th: it returned
Finished(w) == [i \in 1 .. Len(workers) - 1 |-> IF i < w THEN workers[i] ELSE workers[i + 1]]

WorkerInit ==
    /\ disk \in {FullDoc, NoUsedIpsDoc}
    /\ initial_data = NoDoc("unset")
    /\ cidr_networks = <<>>
    /\ provider_networks = <<>>
    /\ phase = "mounting"
    /\ last = "init"
    /\ form_error = NoError
    /\ SvcIdle
    /\ WrkIdle
    /\ GenIdle

\* on_mount: starts the load worker and returns
mount_screen ==
    /\ phase = "mounting"
    /\ phase' = "ready"
    /\ workers' = Append(workers, NewLoad)
    /\ UNCHANGED <<disk, initial_data, cidr_networks, provider_networks, last, form_error,
                   confirm, svcVars, genVars>>

\* load_configs, the file read: not found, YAML error, or data = yaml.load(f)
load_read(w) ==
    /\ workers[w].op = "load"
    /\ workers[w].pc = "read"
    /\ IF disk.kind \in {"missing", "garbage"}
       THEN /\ workers' = Finished(w)
            /\ last' = IF disk.kind = "missing" THEN "load_not_found" ELSE "load_yaml_error"
       ELSE /\ workers' = [workers EXCEPT ![w].pc = "baseline", ![w].data = disk]
            /\ UNCHANGED last
    /\ UNCHANGED <<disk, initial_data, cidr_networks, provider_networks, phase, form_error,
                   confirm, svcVars, genVars>>

\* load_configs: self.initial_data = copy.deepcopy(data), then the raw reads
load_baseline(w) ==
    /\ workers[w].op = "load"
    /\ workers[w].pc = "baseline"
    /\ initial_data' = workers[w].data
    /\ IF LoadRaises(workers[w].data)
       THEN /\ phase' = "crashed"
            /\ last' = "load_raised"
            /\ workers' = Finished(w)
       ELSE /\ workers' = [workers EXCEPT ![w].pc = "publish"]
            /\ UNCHANGED <<phase, last>>
    /\ UNCHANGED <<disk, cidr_networks, provider_networks, form_error, confirm, svcVars, genVars>>

\* load_configs: the reactives are set from the document the worker read
load_publish(w) ==
    /\ workers[w].op = "load"
    /\ workers[w].pc = "publish"
    /\ LET d == workers[w].data
       IN  /\ provider_networks' = IF d.go_tag = "map" /\ d.pn_tag = "list" THEN d.pn ELSE <<>>
           /\ cidr_networks' = ProcessedCidrs(d)
    /\ last' = "load_ok"
    /\ workers' = Finished(w)
    /\ UNCHANGED <<disk, initial_data, phase, form_error, confirm, svcVars, genVars>>

\* one step of a load_configs thread
load_configs_step ==
    /\ phase # "crashed"
    /\ \E w \in 1 .. Len(workers) : load_read(w) \/ load_baseline(w) \/ load_publish(w)

\* the save button or the "s" binding: starts a save worker and returns
on_save_button_pressed ==
    /\ phase = "ready"
    /\ confirm = NoConfirm
    /\ Len(workers) < MaxWorkers
    /\ workers' = Append(workers, NewSave)
    /\ UNCHANGED <<netVars, confirm, svcVars, genVars>>

\* action_save_configs: has_unsaved_changes, then new_cidrs and new_used_ips are
\* taken from the blocks as they are now
save_check(w) ==
    /\ workers[w].op = "save"
    /\ workers[w].pc = "check"
    /\ IF HasUnsavedChanges
       THEN /\ workers' = [workers EXCEPT ![w].pc = "read", ![w].cidrs = cidr_networks]
            /\ UNCHANGED last
       ELSE /\ workers' = Finished(w)
            /\ last' = "save_no_changes"
    /\ UNCHANGED <<disk, initial_data, cidr_networks, provider_networks, phase, form_error,
                   confirm, svcVars, genVars>>

\* action_save_configs: config_data = yaml.load(f)
save_read(w) ==
    /\ workers[w].op = "save"
    /\ workers[w].pc = "read"
    /\ IF disk.kind \in {"missing", "garbage"}
       THEN /\ workers' = Finished(w)
            /\ last' = "save_error"
       ELSE /\ workers' = [workers EXCEPT ![w].pc = "write", ![w].data = disk]
            /\ UNCHANGED last
    /\ UNCHANGED <<disk, initial_data, cidr_networks, provider_networks, phase, form_error,
                   confirm, svcVars, genVars>>

\* action_save_configs: config_data is updated and dumped over the file
save_write(w) ==
    /\ workers[w].op = "save"
    /\ workers[w].pc = "write"
    /\ IF SaveRaises(workers[w].data)
       THEN /\ phase' = "crashed"
            /\ last' = "save_raised"
            /\ workers' = Finished(w)
            /\ UNCHANGED disk
       ELSE IF DumpRaises(provider_networks)
       THEN /\ disk' = NoDoc("empty")
            /\ last' = "save_error"
            /\ workers' = Finished(w)
            /\ UNCHANGED phase
       ELSE /\ disk' = SavedDocument(workers[w].data, workers[w].cidrs, provider_networks)
            /\ workers' = [workers EXCEPT ![w].pc = "reload"]
            /\ UNCHANGED <<phase, last>>
    /\ UNCHANGED <<initial_data, cidr_networks, provider_networks, form_error, confirm, svcVars, genVars>>

\* action_save_configs: the status line, then self.load_configs() starts the
\* reload worker and the save worker returns
save_reload(w) ==
    /\ workers[w].op = "save"
    /\ workers[w].pc = "reload"
    /\ last' = "save_ok"
    /\ workers' = [workers EXCEPT ![w] = NewLoad]
    /\ UNCHANGED <<disk, initial_data, cidr_networks, provider_networks, phase, form_error,
                   confirm, svcVars, genVars>>

\* one step of an action_save_configs thread
save_configs_step ==
    /\ phase # "crashed"
    /\ \E w \in 1 .. Len(workers) :
           save_check(w) \/ save_read(w) \/ save_write(w) \/ save_reload(w)

\* a delete handler that does not wait for the answer: the selected block or
\* provider network is removed when the button is pressed
delete_unconfirmed ==
    /\ phase = "ready"
    /\ confirm = NoConfirm
    /\ \/ \E cidr_name \in Names(cidr_networks) :
              /\ cidr_networks' = PopCidr(cidr_networks, cidr_name)
              /\ UNCHANGED provider_networks
       \/ /\ provider_networks # <<>>
          /\ provider_networks' = PopPn(provider_networks, 1)
          /\ UNCHANGED cidr_networks
    /\ last' = "edited"
    /\ UNCHANGED <<disk, initial_data, phase, form_error, confirm, workers, svcVars, genVars>>

\* a handler reaches push_screen_wait(ConfirmExitScreen(...)): the delete button of
\* a selected block or provider network, or pop/quit with unsaved changes
open_confirmation ==
    /\ phase = "ready"
    /\ confirm = NoConfirm
    /\ \/ \E cidr_name \in Names(cidr_networks) :
              confirm' = [kind |-> "delete_cidr", target |-> cidr_name]
       \/ /\ provider_networks # <<>>
          /\ confirm' = [kind |-> "delete_provider_network", target |-> ""]
       \/ /\ HasUnsavedChanges
          /\ confirm' = [kind |-> "discard", target |-> ""]
    /\ UNCHANGED <<netVars, workers, svcVars, genVars>>

\* action_pop_screen with has_unsaved_changes() false: the screen is popped (or
\* the app exits) without a confirmation
leave_screen ==
    /\ phase = "ready"
    /\ confirm = NoConfirm
    /\ ~ HasUnsavedChanges
    /\ phase' = "closed"
    /\ UNCHANGED <<disk, initial_data, cidr_networks, provider_networks, last, form_error,
                   workers, confirm, svcVars, genVars>>

\* the confirmation is answered and the waiting handler goes on
answer_confirmation ==
    /\ phase = "ready"
    /\ confirm # NoConfirm
    /\ confirm' = NoConfirm
    /\ \E confirmed \in BOOLEAN :
           IF ~ confirmed
           THEN /\ last' = "declined"
                /\ UNCHANGED <<cidr_networks, provider_networks, phase>>
           ELSE IF confirm.kind = "delete_cidr"
           THEN /\ cidr_networks' = PopCidr(cidr_networks, confirm.target)
                /\ last' = "edited"
                /\ UNCHANGED <<provider_networks, phase>>
           ELSE IF confirm.kind = "delete_provider_network"
           THEN IF provider_networks = <<>>     \* pop(index): IndexError
                THEN /\ phase' = "crashed"
                     /\ UNCHANGED <<cidr_networks, provider_networks, last>>
                ELSE /\ provider_networks' = PopPn(provider_networks, 1)
                     /\ last' = "edited"
                     /\ UNCHANGED <<cidr_networks, phase>>
           ELSE /\ phase' = "closed"
                /\ last' = "left"
                /\ UNCHANGED <<cidr_networks, provider_networks>>
    /\ UNCHANGED <<disk, initial_data, form_error, workers, svcVars, genVars>>

WorkerNext ==
    \/ mount_screen
    \/ load_configs_step
    \/ on_save_button_pressed
    \/ save_configs_step
    \/ open_confirmation
    \/ answer_confirmation
    \/ leave_screen

WorkerSpec == WorkerInit /\ [][WorkerNext]_vars

----------------------------------------------------------------------------
(* Properties of the service store *)

\* C1: after a successful load_service_config, when wizzard.yml is in the service
\* directory, the merged mapping holds wizzard.yml's value for every top-level key
\* wizzard.yml defines, whatever other files the directory holds and wherever their
\* names sort.
OverrideAppliedLast ==
    (svc_last = "load_ok" /\ svc_dir["wizzard.yml"].kind = "map") =>
        \A k \in Keys :
            svc_dir["wizzard.yml"].data[k] # Absent =>
                merged_config[k] = svc_dir["wizzard.yml"].data[k]

\* the step is a load_service_config that returns no error
LoadSucceeds == load_service_config /\ svc_last' = "load_ok"

\* C2: after a successful load_service_config every legacy file that existed before
\* is gone from its old place and its content is held by a file of the service
\* directory, and every file the directory held before still has its content.
MigrationKeepsContent ==
    [][LoadSucceeds =>
        /\ \A n \in DOMAIN legacy :
               legacy[n] # NoFile =>
                   /\ legacy'[n] = NoFile
                   /\ \E f \in DOMAIN svc_dir : svc_dir'[f] = legacy[n]
        /\ \A f \in DOMAIN svc_dir :
               svc_dir[f] # NoFile => svc_dir'[f] = svc_dir[f]]_vars

----------------------------------------------------------------------------
(* Properties of the network screen *)

\* the state is the one a load left: no mutation was accepted since
FreshlyLoaded == last \in {"load_ok", "save_ok"}

\* C3: a successful save() followed by its load() leaves a state in which
\* has_unsaved_changes() is false, whatever mutations were accepted before.
RoundTripClean == last = "save_ok" => ~ HasUnsavedChanges

\* a save succeeded after the user added a provider network and submitted a block
RoundTripWitness ==
    /\ last = "save_ok"
    /\ \E i \in 1 .. Len(provider_networks) : provider_networks[i].other = "none"
    /\ \E k \in 1 .. Len(cidr_networks) : cidr_networks[k].used_ips # <<>>
    /\ Len(cidr_networks) = 2

\* the step is a save that wrote the file
SaveSucceeds == last' = "save_ok" /\ action_save_configs

\* C4: a successful save leaves every key it does not manage, at the top level and
\* inside global_overrides, with the value it had on disk before the save.
RemainderPreserved ==
    [][SaveSucceeds =>
        /\ disk'.kind = "doc"
        /\ disk'.rest = disk.rest
        /\ disk'.go_rest = disk.go_rest]_vars

\* a save succeeded on a document that holds other keys
RemainderWitness ==
    /\ last = "save_ok"
    /\ disk.rest = "shared-infra_hosts"
    /\ disk.go_rest = "tunnel_bridge"
    /\ disk.pn # FullDoc.pn

\* the first address of r parses and no declared block's network holds it
IsOrphan(r, cn) ==
    /\ IsIpLiteral(r[1])
    /\ \A j \in 1 .. Len(cn) :
           ~ (ParsesNetwork(cn[j].cidr) /\ Contains(NetworkOf(cn[j].cidr), r[1]))

Orphans(d) == {r \in Range(d.ui) : IsOrphan(r, d.cn)}

\* C5, as the spec states it: after a load, a range whose first address lies in no
\* declared block is in no block's used_ips and is held nowhere else in memory, and
\* the save that follows writes a used_ips list without it.
OrphanHeldNowhere ==
    [][/\ last' = "load_ok" =>
            \A r \in Orphans(disk') :
                /\ \A k \in 1 .. Len(cidr_networks') :
                       r \notin Range(cidr_networks'[k].used_ips)
                /\ r \notin Range(initial_data'.ui)
       /\ (last = "load_ok" /\ SaveSucceeds) =>
            \A r \in Orphans(disk) : r \notin Range(disk'.ui)]_vars

\* C5, amended: after a load, a range whose first address lies in no declared block
\* is in no block's used_ips; the baseline snapshot initial_data still lists it; the
\* save that follows writes a used_ips list without it.  For cidr_networks
\* {mgmt: low half} and used_ips [R0, R2] the load gives mgmt the single range R0 and
\* the save writes used_ips [R0].
OrphanDropped ==
    [][/\ last' = "load_ok" =>
            /\ \A r \in Orphans(disk') :
                   /\ \A k \in 1 .. Len(cidr_networks') :
                          r \notin Range(cidr_networks'[k].used_ips)
                   /\ r \in Range(initial_data'.ui)
            /\ disk' = OrphanDoc =>
                   cidr_networks' = <<[name |-> "mgmt", cidr |-> CidrLow, used_ips |-> <<R0>>]>>
       /\ (last = "load_ok" /\ SaveSucceeds) =>
            /\ \A r \in Orphans(disk) : r \notin Range(disk'.ui)
            /\ disk = OrphanDoc => disk'.ui = <<R0>>]_vars

\* the document with the orphan was loaded and then saved as loaded
OrphanWitness ==
    /\ last = "save_ok"
    /\ disk = [OrphanDoc EXCEPT !.ui = <<R0>>, !.gcn_tag = "map", !.gcn = OrphanDoc.cn]

\* the blocks whose network holds ip
Holders(cn, ip) ==
    {j \in 1 .. Len(cn) : ParsesNetwork(cn[j].cidr) /\ Contains(NetworkOf(cn[j].cidr), ip)}

\* C6: after a load every raw range whose first address parses and lies in a declared
\* block is, unchanged and in file order, in the used_ips of the first such block in
\* declared order, and in no other block's.
RangesGoToFirstHolder ==
    FreshlyLoaded =>
        /\ Len(cidr_networks) = Len(initial_data.cn)
        /\ \A k \in 1 .. Len(cidr_networks) :
               cidr_networks[k].used_ips =
                   SelectSeq(initial_data.ui,
                             LAMBDA r : /\ IsIpLiteral(r[1])
                                        /\ Holders(initial_data.cn, r[1]) # {}
                                        /\ \A j \in Holders(initial_data.cn, r[1]) : k <= j
                                        /\ k \in Holders(initial_data.cn, r[1]))

\* a load met a range that two declared blocks hold
FirstHolderWitness ==
    /\ last = "load_ok"
    /\ \E r \in Range(initial_data.ui) :
           /\ IsIpLiteral(r[1])
           /\ Cardinality(Holders(initial_data.cn, r[1])) = 2
           /\ r \in Range(cidr_networks[1].used_ips)

\* an endpoint of r does not parse or lies outside the network of value
BadRange(r, value) ==
    \/ ~ IsIpLiteral(r[1])
    \/ ~ IsIpLiteral(r[Len(r)])
    \/ ~ Contains(NetworkOf(value), r[1])
    \/ ~ Contains(NetworkOf(value), r[Len(r)])

\* the submission breaks a validation rule of the block form
MustReject(sub) ==
    \/ sub.name = ""
    \/ sub.value.form # "slash"
    \/ ~ ParsesNetwork(sub.value)
    \/ \E i \in 1 .. Len(sub.used_ips) : BadRange(sub.used_ips[i], sub.value)

\* the submissions of the block form that break a rule
RejectedSubmissions == {sub \in CidrSubmissions : MustReject(sub)}

\* C7: a block submission with an empty name or cidr, a cidr without "/", a cidr that
\* does not parse, or a used range with an endpoint that does not parse or lies outside
\* the cidr is rejected and leaves the blocks, the provider networks and the baseline
\* unchanged; an error about a range outside the cidr names such a range.
BlockValidation ==
    [][phase = "ready" =>
       \A sub \in RejectedSubmissions :
         SubmitCidr(sub) =>
            /\ cidr_networks' = cidr_networks
            /\ provider_networks' = provider_networks
            /\ initial_data' = initial_data
            /\ form_error' # NoError
            /\ form_error'.kind = "outside" =>
                   /\ form_error'.range \in Range(sub.used_ips)
                   /\ ~ Contains(NetworkOf(sub.value), form_error'.range[1])
                      \/ ~ Contains(NetworkOf(sub.value), form_error'.range[Len(form_error'.range)])
            /\ (\A i \in 1 .. Len(sub.used_ips) :
                    IsIpLiteral(sub.used_ips[i][1])
                    /\ IsIpLiteral(sub.used_ips[i][Len(sub.used_ips[i])]))
               /\ sub.name # "" /\ sub.value.form = "slash" /\ ParsesNetwork(sub.value)
               => form_error'.kind = "outside"]_vars

\* the edit of a block to a cidr that no longer holds its ranges was rejected
BlockValidationWitness ==
    /\ phase = "modal"
    /\ form_error = [kind |-> "outside", range |-> R2, fields |-> {}]
    /\ \E k \in 1 .. Len(cidr_networks) :
           cidr_networks[k] = [name |-> "mgmt", cidr |-> CidrAll, used_ips |-> <<R2, R12>>]

\* a required field of the provider network form is empty or left unselected
PnFieldMissing(sub) ==
    \/ sub.bridge = ""
    \/ sub.type = BLANK
    \/ sub.interface = ""
    \/ sub.ip_from_q = BLANK

\* the provider network form is submitted with sub, as an add or as an edit
PnFormSubmitted(sub) ==
    /\ phase = "ready"
    /\ \/ Len(provider_networks) < MaxPN /\ SubmitPn(0, NewPn, sub)
       \/ \E index \in 1 .. Len(provider_networks) :
              SubmitPn(index, provider_networks[index], sub)

\* C8: a provider network submission in which bridge, type, container interface or
\* ip_from_q is empty or left unselected is rejected and leaves the provider networks
\* unchanged.
PnValidation ==
    [][\A sub \in PnSubmissions :
         (PnFieldMissing(sub) /\ PnFormSubmitted(sub)) =>
            /\ provider_networks' = provider_networks
            /\ form_error' # NoError]_vars

\* the add form accepted a provider network
PnAdded ==
    /\ phase = "ready"
    /\ Len(provider_networks) < MaxPN
    /\ \E sub \in PnSubmissions :
           /\ ~ PnFieldMissing(sub)
           /\ PnOnSave(sub.bridge, sub.type, sub.interface, sub.ip_from_q) = NoError
           /\ sub.ip_from_q \in Names(cidr_networks)
           /\ SubmitPn(0, NewPn, sub)

\* C9: once the add form accepted a provider network whose ip_from_q names an existing
\* block, has_unsaved_changes() is true until the next successful save; the state the
\* add leaves is the first of these states.
DirtyAfterPnAdd == [][PnAdded => HasUnsavedChanges']_vars

\* C10: after every successful load, and until the first mutation,
\* has_unsaved_changes() is false, for every loadable document.
CleanAfterLoad == FreshlyLoaded => ~ HasUnsavedChanges

\* the step is a save pressed while has_unsaved_changes() is false
SaveWithoutChanges == ~ HasUnsavedChanges /\ action_save_configs

\* C11: a save while has_unsaved_changes() is false leaves the file, the blocks, the
\* provider networks and the baseline unchanged, starts no reload, and shows the
\* "No changes to save." notice.
NoChangeSaveIsNoOp ==
    [][SaveWithoutChanges =>
        /\ UNCHANGED <<disk, initial_data, cidr_networks, provider_networks>>
        /\ phase' = "ready"
        /\ last' = "save_no_changes"]_vars

\* the save of a loaded document nothing was changed in was refused
NoChangeSaveWitness ==
    /\ last = "save_no_changes"
    /\ initial_data = FullDoc
    /\ disk = FullDoc
    /\ Len(cidr_networks) = 2

\* C12: after every successful save the file holds one cidr_networks mapping at the
\* top level and under global_overrides, and the reload reads the two as equal,
\* whatever the two places held on disk before.
SharedCidrsAfterSave ==
    [][SaveSucceeds =>
        /\ disk'.cn_tag = "map" /\ disk'.gcn_tag = "map"
        /\ disk'.gcn = disk'.cn
        /\ initial_data'.gcn = initial_data'.cn
        /\ initial_data'.gcn_tag = initial_data'.cn_tag]_vars

\* a save succeeded on the document whose two places held different mappings
SharedCidrsWitness ==
    /\ last = "save_ok"
    /\ disk.rest = NoUsedIpsDoc.rest
    /\ disk.gcn = disk.cn
    /\ disk.cn # NoUsedIpsDoc.cn

\* the step is a save that got past the change check and did not write the document
SaveFails == last' \in {"save_error", "save_raised"} /\ action_save_configs

\* C13: a save that fails leaves the file as it was before the save.
FailedSaveKeepsFile == [][SaveFails => disk' = disk]_vars

\* C14: a save that fails leaves the blocks, the provider networks and the baseline
\* unchanged, has_unsaved_changes() stays true, and the screen still takes a save.
FailedSaveKeepsDirty ==
    [][SaveFails =>
        /\ UNCHANGED <<initial_data, cidr_networks, provider_networks>>
        /\ HasUnsavedChanges'
        /\ phase' = "ready"]_vars

----------------------------------------------------------------------------
(* Properties of the workers in flight *)

\* C15: at most one load or save of the document is in flight at any time: a save
\* pressed while a load or save is pending is queued or rejected, so two workers
\* never run side by side.
OneInFlight == Len(workers) <= 1

\* C16: while a confirmation (delete block, delete provider network, discard) is
\* open, the blocks, the provider networks and the baseline do not change, whatever
\* the workers started before it do.
ConfirmationFreezesDocument ==
    [][confirm # NoConfirm /\ confirm' # NoConfirm
         => UNCHANGED <<cidr_networks, provider_networks, initial_data>>]_vars

----------------------------------------------------------------------------
(* Error handling *)

\* C17: every failure is a value: whatever the file holds, a load or a save of the
\* network document ends in success or in a reported failure, never in an
\* exception that leaves the worker.
EveryFailureIsAValue == phase # "crashed" /\ last \notin {"load_raised", "save_raised"}

----------------------------------------------------------------------------
(* Migration and frame of the service store *)

\* the deployment holds the legacy file group_vars/haproxy.yml and nothing else
OnlyLegacyHaproxy ==
    /\ svc = "haproxy"
    /\ group_vars
    /\ \A n \in DOMAIN legacy : (legacy[n] # NoFile) <=> (n = "haproxy.yml")
    /\ \A n \in DOMAIN svc_dir : svc_dir[n] = NoFile

\* C18: migration is idempotent.  A load_service_config that follows a successful
\* one, with nothing changed in between, moves no file, leaves every file as it
\* is and returns the same mapping.  On a deployment that holds only the legacy
\* file haproxy.yml, a load that does not fail moves it to
\* group_vars/haproxy/migrated_haproxy.yml and returns what it holds.
MigrationIdempotent ==
    [][load_service_config =>
         /\ svc_last = "load_ok" =>
                /\ moves' = 0
                /\ UNCHANGED <<legacy, svc_dir, merged_config, svc_error>>
                /\ svc_last' = "load_ok"
         /\ (OnlyLegacyHaproxy /\ svc_last' = "load_ok") =>
                /\ moves' = 1
                /\ legacy'["haproxy.yml"] = NoFile
                /\ svc_dir' = [svc_dir EXCEPT !["migrated_haproxy.yml"] = legacy["haproxy.yml"]]
                /\ merged_config' = legacy["haproxy.yml"].data]_vars

\* the legacy file was moved by one load, and a second load has run after it
MigrationIdempotentWitness ==
    /\ svc = "haproxy"
    /\ svc_last = "load_ok"
    /\ moves = 0
    /\ \A n \in DOMAIN legacy : legacy[n] = NoFile
    /\ \A n \in DOMAIN svc_dir : (svc_dir[n] # NoFile) <=> (n = "migrated_haproxy.yml")
    /\ svc_dir["migrated_haproxy.yml"] = File(Defines("haproxy.yml", {"key_a"}))
    /\ merged_config = Defines("haproxy.yml", {"key_a"})

\* C19: load_service_config returns either (merged mapping, no error) or (empty
\* mapping, error): when a move or a file read fails the load stops, the error is
\* returned, and no partly merged mapping comes back.
MergedOrError ==
    [][(group_vars /\ load_service_config) =>
         \/ svc_last' = "load_ok" /\ ~ svc_error'
         \/ svc_last' = "load_error" /\ svc_error' /\ merged_config' = EmptyMap]_vars

\* the keys that a file of the service directory other than wizzard.yml defines
KeysOfOtherFiles(dir) ==
    {k \in Keys : \E n \in DOMAIN dir \ {"wizzard.yml"} :
                      dir[n].kind = "map" /\ dir[n].data[k] # Absent}

\* C20: save_service_config writes wizzard.yml of the named service only, making
\* the directories when they are absent: every other file of the service directory
\* and every file outside it is as it was, so a key that only another file defines
\* is still there when the files of the directory are merged again.
SaveWritesOverrideOnly ==
    [][save_service_config =>
         /\ group_vars'
         /\ svc_dir'["wizzard.yml"].kind = "map"
         /\ svc_dir'["wizzard.yml"].data \in SaveData
         /\ \A n \in DOMAIN svc_dir \ {"wizzard.yml"} : svc_dir'[n] = svc_dir[n]
         /\ legacy' = legacy
         /\ LET re == MergeFiles(SortedGlob(svc_dir'), svc_dir', EmptyMap)
            IN  (~ re.error /\ ~ re.raised) =>
                    \A k \in KeysOfOtherFiles(svc_dir) : re.merged_config[k] # Absent]_vars

\* a save has left a.yml, which defines a key the saved mapping does not, in place
SaveWritesOverrideOnlyWitness ==
    /\ svc_last = "save_ok"
    /\ svc_dir["a.yml"] = OperatorFile("a.yml")
    /\ svc_dir["wizzard.yml"] = File(Defines("saved", {"key_a"}))

----------------------------------------------------------------------------
(* Blocks and their ranges *)

\* first and last address of the range parse and lie in the network of the cidr
RangeInside(r, cidr) ==
    /\ ParsesNetwork(cidr)
    /\ IsIpLiteral(r[1]) /\ Contains(NetworkOf(cidr), r[1])
    /\ IsIpLiteral(r[Len(r)]) /\ Contains(NetworkOf(cidr), r[Len(r)])

\* C21: containment.  In every state after a load, every used range a block holds
\* lies in the block's cidr with its low and its high end.
Containment ==
    \A i \in 1 .. Len(cidr_networks) :
        \A j \in 1 .. Len(cidr_networks[i].used_ips) :
            RangeInside(cidr_networks[i].used_ips[j], cidr_networks[i].cidr)

\* a provider network names a block that is not among the blocks
Dangling(pn, cidrs) == pn.ip_from_q \notin Names(cidrs) \cup {BLANK}

\* C22: no cascade on block deletion.  The delete handler removes the named block
\* only and leaves the provider networks as they are, also those whose ip_from_q
\* names the deleted block.  The edit form of a provider network opens without
\* raising, with the select blank when the stored block is gone, and an edit is
\* accepted only with a block that exists.
NoCascadeOnDelete ==
    [][/\ on_delete_cidr_button_pressed =>
              /\ provider_networks' = provider_networks
              /\ \E cidr_name \in Names(cidr_networks) :
                     cidr_networks' \in {cidr_networks, PopCidr(cidr_networks, cidr_name)}
       /\ action_edit_provider_network =>
              /\ phase' # "crashed"
              /\ \A i \in 1 .. Len(provider_networks) :
                     Dangling(provider_networks[i], cidr_networks) =>
                         CurrentIpFromQ(provider_networks[i], Names(cidr_networks)) = BLANK
              /\ form_error' = NoError =>
                     \E index \in 1 .. Len(provider_networks) :
                         /\ provider_networks'[index].ip_from_q \in Names(cidr_networks)
                         /\ \A j \in 1 .. Len(provider_networks) :
                                j # index => provider_networks'[j] = provider_networks[j]]_vars

\* the block a provider network names was deleted, and the edit form, submitted
\* with the select left blank, stays open with its error
NoCascadeWitness ==
    /\ Len(provider_networks) = 1
    /\ Dangling(provider_networks[1], cidr_networks)
    /\ phase = "modal"
    /\ form_error.fields = {"IP From Network"}

----------------------------------------------------------------------------
(* Confirmations *)

\* C23: confirmation gating.  Pressing delete or back/quit removes nothing and
\* leaves nothing: a block or a provider network is removed only by the step that
\* takes the user's "yes", and the screen is left with unsaved changes only by
\* such a step; without unsaved changes it is left at once, so has_unsaved_changes
\* is asked before every leave.  After a "no" the blocks, the provider networks,
\* the baseline and the screen are as before.
ConfirmationGating ==
    [][/\ open_confirmation =>
              UNCHANGED <<cidr_networks, provider_networks, initial_data, phase>>
       /\ leave_screen => ~ HasUnsavedChanges
       /\ (phase = "ready" /\ phase' = "closed") =>
              \/ leave_screen
              \/ answer_confirmation /\ confirm.kind = "discard" /\ last' = "left"
       /\ answer_confirmation =>
              /\ UNCHANGED initial_data
              /\ last' = "declined" =>
                     UNCHANGED <<cidr_networks, provider_networks, phase>>
              /\ cidr_networks' # cidr_networks =>
                     /\ confirm.kind = "delete_cidr"
                     /\ last' = "edited"
                     /\ cidr_networks' = PopCidr(cidr_networks, confirm.target)
              /\ provider_networks' # provider_networks =>
                     /\ confirm.kind = "delete_provider_network"
                     /\ last' = "edited"
                     /\ provider_networks' = PopPn(provider_networks, 1)]_vars

\* the user declined to delete a block: the block is still there
ConfirmationGatingWitness ==
    /\ last = "declined"
    /\ confirm = NoConfirm
    /\ phase = "ready"
    /\ Len(cidr_networks) = 2
    /\ Len(provider_networks) = 1

----------------------------------------------------------------------------
(* Mutations of the blocks *)

\* the edit form of block cidr_name is submitted with sub and accepted
EditAccepted(cidr_name, sub) ==
    /\ phase = "ready"
    /\ cidr_name \in Names(cidr_networks) \ {""}
    /\ action_edit_cidr
    /\ SubmitCidr(sub)
    /\ form_error' = NoError

\* C24: an edit that changes the name renames the block: after the accepted edit of
\* block N under a new name M that no block has, the blocks hold M with the
\* submitted cidr and ranges, hold N no longer, and are as many as before.
EditRenames ==
    [][\A sub \in CidrSubmissions : \A cidr_name \in Names(cidr_networks) :
           (sub.name # cidr_name /\ sub.name \notin Names(cidr_networks)
                /\ EditAccepted(cidr_name, sub)) =>
               /\ \E i \in 1 .. Len(cidr_networks') :
                      cidr_networks'[i] =
                          [name |-> sub.name, cidr |-> sub.value, used_ips |-> sub.used_ips]
               /\ cidr_name \notin Names(cidr_networks')
               /\ Len(cidr_networks') = Len(cidr_networks)]_vars

\* the add form is submitted with sub and accepted
AddAccepted(sub) ==
    /\ phase = "ready"
    /\ on_add_cidr_button_pressed
    /\ SubmitCidr(sub)
    /\ form_error' = NoError

\* C25: no silent overwrite.  An accepted add, or an accepted edit of block N under
\* another name, leaves every block that was there before (other than N) with its
\* name, cidr and used ranges, also when the submitted name is the name of one of
\* them.
NoSilentOverwrite ==
    [][\A sub \in CidrSubmissions :
           /\ AddAccepted(sub) =>
                  \A i \in 1 .. Len(cidr_networks) :
                      cidr_networks[i] \in Range(cidr_networks')
           /\ \A cidr_name \in Names(cidr_networks) :
                  (sub.name # cidr_name /\ EditAccepted(cidr_name, sub)) =>
                      \A i \in 1 .. Len(cidr_networks) :
                          cidr_networks[i].name # cidr_name =>
                              cidr_networks[i] \in Range(cidr_networks')]_vars

----------------------------------------------------------------------------
(* GenericConfigScreen (screens/services/generic.py): the two endpoint      *)
(* settings of service "all".  key_a stands for internal_lb_vip_address,    *)
(* key_b for external_lb_vip_address, key_c for any other key.              *)

ManagedKeys == {"key_a", "key_b"}

\* what the user types into an Input
InputValues == {"", "vip.example"}

\* config_data.get(key, "")
GetOr(m, k) == IF m[k] = Absent THEN "" ELSE m[k]

\* new_config of action_save_configs (and _get_current_config): the two keys only
NewConfig(inputs) ==
    [k \in Keys |-> IF k = "key_a" THEN inputs.internal
                    ELSE IF k = "key_b" THEN inputs.external
                    ELSE Absent]

\* update_widgets: the inputs show the loaded values
Widgets(config_data) ==
    [internal |-> GetOr(config_data, "key_a"), external |-> GetOr(config_data, "key_b")]

\* GenericConfigScreen.has_unsaved_changes
generic_has_unsaved_changes(init, inputs) ==
    IF init = EmptyMap THEN FALSE
    ELSE \E k \in ManagedKeys : NewConfig(inputs)[k] # GetOr(init, k)

\* the state GenericConfigScreen.load_configs leaves, as
\* [legacy, svc_dir, gen_initial_data, gen_inputs, outcome]
GenericLoad(gv, leg, dir, fail_at, init0, inputs0) ==
    LET re == LoadServiceConfig("all", leg, dir, fail_at)
    IN  IF ~ gv
        THEN [legacy |-> leg, svc_dir |-> dir, gen_initial_data |-> init0,
              gen_inputs |-> inputs0, outcome |-> "load_raised"]
        ELSE IF re.raised
        THEN [legacy |-> re.legacy, svc_dir |-> re.svc_dir, gen_initial_data |-> init0,
              gen_inputs |-> inputs0, outcome |-> "load_raised"]
        ELSE IF re.error
        THEN [legacy |-> re.legacy, svc_dir |-> re.svc_dir, gen_initial_data |-> init0,
              gen_inputs |-> inputs0, outcome |-> "load_error"]
        ELSE [legacy |-> re.legacy, svc_dir |-> re.svc_dir,
              gen_initial_data |-> re.merged_config,
              gen_inputs |-> Widgets(re.merged_config), outcome |-> "load_ok"]

\* the deployment the screen is opened on; wizzard.yml may hold another key
GenericInit ==
    /\ NetIdle
    /\ WrkIdle
    /\ GenIdle
    /\ SvcInit
    /\ svc = "all"

\* on_mount: load_configs
generic_on_mount ==
    /\ gen_last = "init"
    /\ \E fail_at \in 0 .. Len(LegacyFiles("all")) :
           LET re == GenericLoad(group_vars, legacy, svc_dir, fail_at,
                                 gen_initial_data, gen_inputs)
           IN  /\ legacy' = re.legacy
               /\ svc_dir' = re.svc_dir
               /\ gen_initial_data' = re.gen_initial_data
               /\ gen_inputs' = re.gen_inputs
               /\ gen_last' = re.outcome
    /\ UNCHANGED <<svc, group_vars, merged_config, svc_error, svc_last, moves, netVars, wrkVars>>

\* the user changes the text of one of the two inputs
generic_input_changed ==
    /\ gen_last \notin {"init", "load_raised"}
    /\ \E v \in InputValues :
           \/ gen_inputs' = [gen_inputs EXCEPT !.internal = v]
           \/ gen_inputs' = [gen_inputs EXCEPT !.external = v]
    /\ gen_last' = "edited"
    /\ UNCHANGED <<gen_initial_data, svcVars, netVars, wrkVars>>

\* action_save_configs: save_service_config(config_path, "all", new_config), then
\* load_configs
generic_action_save_configs ==
    /\ gen_last \notin {"init", "load_raised"}
    /\ LET written == [svc_dir EXCEPT !["wizzard.yml"] =
                           File(NewConfig(gen_inputs))]
           re == GenericLoad(TRUE, legacy, written, 0, gen_initial_data, gen_inputs)
       IN  /\ group_vars' = TRUE
           /\ legacy' = re.legacy
           /\ svc_dir' = re.svc_dir
           /\ gen_initial_data' = re.gen_initial_data
           /\ gen_inputs' = re.gen_inputs
           /\ gen_last' = IF re.outcome = "load_ok" THEN "save_ok"
                          ELSE "save_ok_" \o re.outcome
    /\ UNCHANGED <<svc, merged_config, svc_error, svc_last, moves, netVars, wrkVars>>

GenericNext ==
    \/ generic_on_mount
    \/ generic_input_changed
    \/ generic_action_save_configs

GenericSpec == GenericInit /\ [][GenericNext]_vars

\* C26: a save from the generic screen keeps the rest of the override file: every
\* key wizzard.yml held before the save, other than the two endpoint keys, is in
\* wizzard.yml after the save with the same value.
GenericSaveKeepsOtherKeys ==
    [][generic_action_save_configs =>
         \A k \in Keys \ ManagedKeys :
             (svc_dir["wizzard.yml"].kind = "map" /\ svc_dir["wizzard.yml"].data[k] # Absent) =>
                 /\ svc_dir'["wizzard.yml"].kind = "map"
                 /\ svc_dir'["wizzard.yml"].data[k] = svc_dir["wizzard.yml"].data[k]]_vars

----------------------------------------------------------------------------
(* Mutations while a save is in flight *)

\* a load worker sets the reactives, and the last thing that happened before was a
\* mutation by the user: the worker is the reload of a save that took the blocks
\* before that mutation, or that had written before it
ReloadAfterMutation ==
    /\ last = "edited"
    /\ \E w \in 1 .. Len(workers) : load_publish(w)

\* C27: no mutation is lost to the automatic reload.  A delete accepted while a
\* save is in flight is in what the save wrote, or it is still in the blocks and
\* provider networks after the reload: either way the reload brings back no block
\* and no provider network that the user had deleted.
NoMutationLost ==
    [][ReloadAfterMutation =>
         /\ Names(cidr_networks') \subseteq Names(cidr_networks)
         /\ Len(provider_networks') <= Len(provider_networks)]_vars

----------------------------------------------------------------------------
(* Drift against an empty baseline *)

\* C28: drift is detected against an empty baseline.  When the last load of the
\* generic screen succeeded (also with an empty mapping, a service with no
\* configuration files) and the user changes an input so that the inputs differ
\* from what that load showed, has_unsaved_changes() is true.
DriftAgainstEmptyBaseline ==
    [][(generic_input_changed /\ gen_last \in {"load_ok", "save_ok"}
            /\ gen_inputs' # Widgets(gen_initial_data')) =>
         generic_has_unsaved_changes(gen_initial_data', gen_inputs')]_vars

----------------------------------------------------------------------------
(* Range ownership across save and reload *)

\* the two lists hold the same ranges the same number of times
SameRanges(a, b) ==
    \A r \in Range(a) \cup Range(b) :
        Cardinality({i \in 1 .. Len(a) : a[i] = r}) = Cardinality({i \in 1 .. Len(b) : b[i] = r})

\* every block is one the cidr form accepts
BlocksAccepted(cidrs) ==
    \A i \in 1 .. Len(cidrs) :
        CidrOnSave(cidrs[i].name, cidrs[i].cidr, cidrs[i].used_ips) = NoError

\* C29: range ownership survives save and reload.  When the blocks are ones the
\* add/edit form accepts (overlapping cidrs included) and a save succeeds, every
\* block holds after the save's reload the same used ranges, as a multiset, that
\* it held before the save.
RangeOwnershipSurvives ==
    [][(action_save_configs /\ last' = "save_ok" /\ phase' = "ready"
            /\ BlocksAccepted(cidr_networks)) =>
         \A i \in 1 .. Len(cidr_networks) :
             \E j \in 1 .. Len(cidr_networks') :
                 /\ cidr_networks'[j].name = cidr_networks[i].name
                 /\ SameRanges(cidr_networks'[j].used_ips, cidr_networks[i].used_ips)]_vars

----------------------------------------------------------------------------
(* Cidrs without a prefix length *)

\* C30: a cidr without a prefix-length suffix is never accepted as a network.
\* After a load, a declared block whose cidr text has no "/" holds no used ranges,
\* the same way the add/edit form rejects such a cidr.
NoSuffixNoRanges ==
    last = "load_ok" =>
        \A k \in 1 .. Len(cidr_networks) :
            cidr_networks[k].cidr.form # "slash" =>
                /\ CidrOnSave(cidr_networks[k].name, cidr_networks[k].cidr, <<>>) # NoError
                /\ cidr_networks[k].used_ips = <<>>

----------------------------------------------------------------------------
(* Declared blocks whose cidr does not parse *)

\* parseNetwork fails on the text: no prefix-length suffix, or no address/prefix pair
FailsParseNetwork(c) == c.form # "slash" \/ ~ ParsesNetwork(c)

\* the declared blocks of a document without those whose cidr fails to parse
ParsedBlocks(d) == SelectSeq(d.cn, LAMBDA e : ~ FailsParseNetwork(e.cidr))

\* the ranges the block called name gets when only the parsed blocks are declared
RangesWithoutFailed(d, name) ==
    LET good == ParsedBlocks(d)
        re == AssociateUsedIps(
                  [i \in 1 .. Len(good) |->
                      [name |-> good[i].name, cidr |-> good[i].cidr, used_ips |-> <<>>]],
                  good, d.ui)
    IN  re[CHOOSE i \in 1 .. Len(re) : re[i].name = name].used_ips

\* C31: a declared block whose cidr fails to parse does not abort the load.  The
\* load of a document with such a block succeeds; every declared block is in the
\* block collection with its cidr text; a block whose cidr fails to parse holds no
\* used ranges; every other block holds the ranges it would hold if the failed
\* blocks were not declared.
FailedBlockKeptEmpty ==
    [][(on_mount /\ disk.kind = "doc" /\ ~ LoadRaises(disk)
            /\ \E k \in 1 .. Len(disk.cn) : FailsParseNetwork(disk.cn[k].cidr)) =>
         /\ last' = "load_ok"
         /\ phase' = "ready"
         /\ Len(cidr_networks') = Len(disk.cn)
         /\ \A k \in 1 .. Len(disk.cn) :
                /\ cidr_networks'[k].name = disk.cn[k].name
                /\ cidr_networks'[k].cidr = disk.cn[k].cidr
                /\ cidr_networks'[k].used_ips =
                       IF FailsParseNetwork(disk.cn[k].cidr) THEN <<>>
                       ELSE RangesWithoutFailed(disk, disk.cn[k].name)]_vars

----------------------------------------------------------------------------
(* What a save writes *)

RECURSIVE RangesBefore(_, _)
\* the number of ranges the blocks before block k hold
RangesBefore(cidrs, k) ==
    IF k <= 1 THEN 0 ELSE RangesBefore(cidrs, k - 1) + Len(cidrs[k - 1].used_ips)

\* C32: on a successful save the used_ips list written is the concatenation of the
\* blocks' range lists in block order (grouped by block, order within a block
\* kept), the cidr_networks mapping written is the name-to-cidr mapping of the
\* blocks, and the provider_networks list written is the one in memory.
SaveWritesMemory ==
    [][(action_save_configs /\ last' = "save_ok") =>
         /\ disk'.ui_tag = "list"
         /\ Len(disk'.ui) = RangesBefore(cidr_networks, Len(cidr_networks) + 1)
         /\ \A k \in 1 .. Len(cidr_networks) :
                \A j \in 1 .. Len(cidr_networks[k].used_ips) :
                    disk'.ui[RangesBefore(cidr_networks, k) + j] = cidr_networks[k].used_ips[j]
         /\ Len(disk'.cn) = Len(cidr_networks)
         /\ \A k \in 1 .. Len(cidr_networks) :
                /\ disk'.cn[k].name = cidr_networks[k].name
                /\ disk'.cn[k].cidr = cidr_networks[k].cidr
         /\ disk'.pn_tag = "list"
         /\ disk'.pn = provider_networks]_vars

\* a save wrote two blocks, each with a range, and a provider network; the ranges
\* are in block order, which is not the sorted order
SaveWritesMemoryWitness ==
    /\ last = "save_ok"
    /\ Len(disk.cn) = 2
    /\ Len(disk.ui) = 2
    /\ disk.ui # Sorted(disk.ui)
    /\ disk.pn # <<>>
    /\ \A k \in 1 .. Len(cidr_networks) : cidr_networks[k].used_ips # <<>>

----------------------------------------------------------------------------
(* What the mutations leave alone *)

\* a block or a provider network is added, edited or deleted (or the form shows
\* an error, or the confirmation is declined)
MutationHandler ==
    \/ on_add_cidr_button_pressed
    \/ action_edit_cidr
    \/ on_delete_cidr_button_pressed
    \/ action_add_provider_network
    \/ action_edit_provider_network
    \/ on_delete_provider_network_button_pressed

\* C33: mutations touch only the in-memory collections.  Add, edit and delete of a
\* block or a provider network change neither the baseline taken at load nor the
\* file; in a step that leaves the screen running, the baseline changes only when
\* the step's load succeeds, and the file only when the step's save succeeds.
MutationsTouchMemoryOnly ==
    [][/\ MutationHandler => UNCHANGED <<initial_data, disk>>
       /\ phase' # "crashed" =>
              /\ initial_data' # initial_data => last' \in {"load_ok", "save_ok"}
              /\ disk' # disk => last' = "save_ok"]_vars

----------------------------------------------------------------------------
(* Reordered ranges *)

\* the blocks and provider networks in memory are the ones of the baseline, up to
\* the order of the used ranges: the baseline holds the three managed keys, the
\* block mapping and the provider networks are equal, and the ranges of the blocks
\* are the baseline's used_ips as a multiset
OnlyOrderDiffers ==
    /\ initial_data.kind = "doc"
    /\ initial_data.cn_tag = "map"
    /\ initial_data.ui_tag = "list"
    /\ initial_data.go_tag = "map"
    /\ initial_data.pn_tag = "list"
    /\ Range(CurrentCidrs(cidr_networks)) = Range(initial_data.cn)
    /\ provider_networks = initial_data.pn
    /\ SameRanges(CurrentUsedIps(cidr_networks), initial_data.ui)

\* C34: reordering is not drift.  When the current state differs from the baseline
\* only in the order of the used ranges (same multiset of ranges, same block
\* mapping, same provider networks), has_unsaved_changes() is false.
ReorderingIsNotDrift == OnlyOrderDiffers => ~ HasUnsavedChanges

\* the ranges of the blocks are in another order than the file's, and nothing
\* else differs
ReorderingWitness ==
    /\ OnlyOrderDiffers
    /\ Len(initial_data.ui) = 2
    /\ CurrentUsedIps(cidr_networks) # initial_data.ui
    /\ ~ HasUnsavedChanges

----------------------------------------------------------------------------
(* Merge order among the files of the service directory *)

\* the positions, in ascending filename order, of the files that define key k
DefinedAt(k) ==
    {i \in 1 .. Len(DirNames) :
        svc_dir[DirNames[i]].kind = "map" /\ svc_dir[DirNames[i]].data[k] # Absent}

\* those of them that are not the override file
DefinedAtNonOverride(k) == {i \in DefinedAt(k) : DirNames[i] # "wizzard.yml"}

\* the last of a non-empty set of positions
LastOf(S) == CHOOSE i \in S : \A j \in S : j <= i

\* C35: merge order among non-override files.  After a successful
\* load_service_config, a top-level key that the override file does not define and
\* that one or more other files define holds the value of the one whose name sorts
\* last, and a key only one file defines holds that file's value.
LaterFileWins ==
    svc_last = "load_ok" =>
        \A k \in Keys :
            /\ (DefinedAtNonOverride(k) # {} /\ DefinedAtNonOverride(k) = DefinedAt(k)) =>
                   merged_config[k] = svc_dir[DirNames[LastOf(DefinedAt(k))]].data[k]
            /\ Cardinality(DefinedAt(k)) = 1 =>
                   merged_config[k] = svc_dir[DirNames[LastOf(DefinedAt(k))]].data[k]

\* the override file is there, vars.yml and zz.yml both define key_b, and the
\* merged mapping holds the value of zz.yml
LaterFileWinsWitness ==
    /\ svc_last = "load_ok"
    /\ svc_dir["wizzard.yml"].kind = "map"
    /\ svc_dir["vars.yml"].kind = "map"
    /\ svc_dir["vars.yml"].data["key_b"] # Absent
    /\ svc_dir["zz.yml"].kind = "map"
    /\ svc_dir["zz.yml"].data["key_b"] # svc_dir["vars.yml"].data["key_b"]
    /\ merged_config["key_b"] = svc_dir["zz.yml"].data["key_b"]

----------------------------------------------------------------------------
(* The change check before a save of the generic screen *)

\* C36: every save is gated by the change check.  A save requested from the
\* generic screen while has_unsaved_changes() is false, the inputs showing what
\* the last load put into them, leaves the override file as it was.
GenericSaveGated ==
    [][(generic_action_save_configs
            /\ gen_inputs = Widgets(gen_initial_data)
            /\ ~ generic_has_unsaved_changes(gen_initial_data, gen_inputs)) =>
         svc_dir'["wizzard.yml"] = svc_dir["wizzard.yml"]]_vars

----------------------------------------------------------------------------
(* What the edit of a provider network leaves alone *)

\* C37: editing a provider network changes only the form-managed fields of the
\* selected entry.  On the file with two provider networks, in every step of the
\* edit handler the blocks are unchanged, the list keeps its length, and there is
\* one entry such that every other entry keeps its value and position and the
\* entry keeps the fields the form does not manage.
EditPnFrame ==
    [][action_edit_provider_network =>
         /\ cidr_networks' = cidr_networks
         /\ Len(provider_networks') = Len(provider_networks)
         /\ \E index \in 1 .. Len(provider_networks) :
                /\ provider_networks'[index].other = provider_networks[index].other
                /\ \A j \in 1 .. Len(provider_networks) :
                       j # index => provider_networks'[j] = provider_networks[j]]_vars

\* the second of two provider networks was edited: its bridge, type and interface
\* are the submitted ones, its other key is kept, and the first entry is as loaded
EditPnFrameWitness ==
    /\ last = "edited"
    /\ Len(provider_networks) = 2
    /\ provider_networks[1] = PnLoaded
    /\ provider_networks[2] =
           [PnSecond EXCEPT !.bridge = "br-vlan", !.type = "vlan", !.interface = "eth11"]

----------------------------------------------------------------------------
(* Ranges across save and reload *)

\* C38: a save never writes an orphan.  After a successful save and the reload
\* that follows, the used ranges of all blocks together are, as a multiset, the
\* used ranges of all blocks immediately before the save.
NoRangeDroppedBySave ==
    [][(action_save_configs /\ last' = "save_ok" /\ phase' = "ready") =>
         SameRanges(CurrentUsedIps(cidr_networks'), CurrentUsedIps(cidr_networks))]_vars

\* a save and its reload left two overlapping blocks; the range that starts in the
\* first block and ends outside of it is held by the first block
NoRangeDroppedWitness ==
    /\ last = "save_ok"
    /\ phase = "ready"
    /\ Len(cidr_networks) = 2
    /\ cidr_networks[1].cidr = CidrLow
    /\ cidr_networks[2].cidr = CidrAll
    /\ cidr_networks[1].used_ips = <<R12>>
    /\ cidr_networks[2].used_ips = <<R2>>
====
